---- MODULE Spec2Model ----
(***************************************************************************)
(* Model of experiments/train_TUs.py: the run controller main(), the       *)
(* trainer train_epoch, the evaluator eval_epoch and the multi-run loop    *)
(* under `if __name__ == "__main__"`.                                      *)
(*                                                                         *)
(* The tensor library, the model and the datasets are collaborators that   *)
(* the file only calls.  They are modelled as follows.                     *)
(*   - model parameters: [seed, steps], the seed the generators had when   *)
(*     the model was built and the number of optimizer.step() calls since. *)
(*   - model(batch): one row of logits per sample; the row produced for    *)
(*     given parameters and a given split is chosen the first time it is   *)
(*     needed and remembered in `oracle`, so a forward pass is a function  *)
(*     of the parameters and the data.                                     *)
(*   - rational numbers (scores, learning rates, means) are pairs          *)
(*     <<numerator, denominator>>.                                         *)
(*   - wall-clock time is a logical clock that ticks once per statement.   *)
(***************************************************************************)
EXTENDS Integers, Sequences, FiniteSets, TLC

\* ------------------------------------------------------------------ bounds
MaxEpochs == 3
MaxWarmup == 2
MaxBatches == 2
RunsMaxEpochs == 1

\* range(10) of the multi-run loop
NumRuns == 10
\* the epoch whose memory usage is sampled
MemEpoch == 1

\* --------------------------------------------------------------- rationals
RECURSIVE GCD(_, _)
GCD(a, b) == IF b = 0 THEN a ELSE GCD(b, a % b)

Abs(x) == IF x < 0 THEN -x ELSE x

FracNorm(f) ==
  LET g == GCD(Abs(f[1]), f[2]) IN IF g = 0 THEN f ELSE <<f[1] \div g, f[2] \div g>>

Frac(n, d) == FracNorm(<<n, d>>)

FracAdd(a, b) == Frac(a[1] * b[2] + b[1] * a[2], a[2] * b[2])
FracSub(a, b) == Frac(a[1] * b[2] - b[1] * a[2], a[2] * b[2])
FracMul(a, b) == Frac(a[1] * b[1], a[2] * b[2])
FracGt(a, b) == a[1] * b[2] > b[1] * a[2]

RECURSIVE FracSum(_)
FracSum(xs) == IF xs = <<>> THEN <<0, 1>> ELSE FracAdd(Head(xs), FracSum(Tail(xs)))

\* np.mean: the mean of an empty list is nan
np_mean(xs) ==
  IF xs = <<>> THEN "nan" ELSE FracMul(FracSum(xs), <<1, Len(xs)>>)

\* np.std: the population standard deviation; kept as the variance it is the
\* square root of
np_std(xs) ==
  IF xs = <<>> THEN "nan"
  ELSE LET m == np_mean(xs)
           sq == [k \in 1..Len(xs) |-> FracMul(FracSub(xs[k], m), FracSub(xs[k], m))]
       IN [sqrt_of |-> np_mean(sq)]

\* ------------------------------------------------------------ toy datasets
\* A loader is a sequence of batches, a batch the sequence of its labels.
ValLoader == << <<0>>, <<1>> >>
TestLoader == << <<1>> >>
LogitRows == { <<1, 0>>, <<0, 1>> }

Loader(split) == IF split = "Val" THEN ValLoader ELSE TestLoader

RECURSIVE NSamples(_)
NSamples(loader) ==
  IF loader = <<>> THEN 0 ELSE Len(Head(loader)) + NSamples(Tail(loader))

\* every output model() can give on a loader: a row of logits per sample
Outputs(loader) ==
  { o \in [1..Len(loader) -> UNION { [1..Len(loader[b]) -> LogitRows] : b \in 1..Len(loader) }] :
      \A b \in 1..Len(loader) : Len(o[b]) = Len(loader[b]) }

\* -------------------------------------------------------------- eval_epoch
\* pred.max(dim=1)[1]: the class (counted from 0) of the largest logit, the
\* first one on a tie
ArgMax(row) ==
  (CHOOSE i \in 1..Len(row) :
     \A j \in 1..Len(row) : row[j] <= row[i] /\ (j < i => row[j] < row[i])) - 1

\* pred.eq(batch.y).sum().item()
BatchCorrect(out, y) ==
  Cardinality({ k \in 1..Len(y) : ArgMax(out[k]) = y[k] })

\* the loop of eval_epoch: correct += ... over the batches of the loader
RECURSIVE CountCorrect(_, _, _)
CountCorrect(outs, loader, b) ==
  IF b > Len(loader) THEN 0
  ELSE BatchCorrect(outs[b], loader[b]) + CountCorrect(outs, loader, b + 1)

\* torch.cat of a list of tensors.  The tensor library is not part of the
\* file; on an empty list every PyTorch release raises RuntimeError.  What
\* the library answers there is kept as a parameter of the environment
\* (cat_empty), "raises" being the library as released, so that the run
\* controller can also be followed past its first evaluation.
torch_cat(tensors, cat_empty_is) ==
  IF tensors = <<>> /\ cat_empty_is = "raises" THEN "RuntimeError" ELSE ""

\* eval_epoch(model, loader, ...) given the outputs model() gives on the
\* loader: [raised, score, loss].  y_pred and y_true are created empty and
\* never appended to; running_loss stays 0.0.  The device is taken to be
\* there (batch.cuda() succeeds).
eval_epoch(outs, loader, cat_empty_is) ==
  LET y_pred == <<>>
      correct == CountCorrect(outs, loader, 1)
      n_sample == NSamples(loader)
  IN IF torch_cat(y_pred, cat_empty_is) # ""
       THEN [raised |-> torch_cat(y_pred, cat_empty_is), score |-> <<0, 0>>, loss |-> <<0, 0>>]
     ELSE IF n_sample = 0
       THEN [raised |-> "ZeroDivisionError", score |-> <<0, 0>>, loss |-> <<0, 0>>]
     ELSE [raised |-> "", score |-> Frac(correct, n_sample), loss |-> Frac(0, n_sample)]

\* ------------------------------------------------------------- train_epoch
\* (faulty variant: the epoch is not scaled by the number of batches)
IterationFlat(ep, len_loader, i) == ep + i
\* iteration = epoch * len(loader) + i
Iteration(ep, len_loader, i) == ep * len_loader + i

\* lr_steps = args.lr / (args.warmup * len(train_loader)); warmup_lr_scheduler(s)
warmup_lr_scheduler(s, steps) == FracMul(<<s, 1>>, steps)

\* (faulty variant: the warmup rate is written in every epoch)
InWarmupAlways(ep, a) == TRUE
\* if epoch < args.warmup
InWarmup(ep, a) == ep < a.warmup

\* the learning rates train_epoch writes into the optimizer, batch by batch:
\* a sequence of [epoch, i, lr]
LrWrites(ep, a, len_loader, steps) ==
  IF InWarmup(ep, a)
    THEN [k \in 1..len_loader |->
            [epoch |-> ep, i |-> k - 1,
             lr |-> warmup_lr_scheduler(Iteration(ep, len_loader, k - 1), steps)]]
    ELSE <<>>

\* -------------------------------------------------------------------- main
\* (faulty variant: the seed depends on the run)
RunSeedPerRun(a, r) == a.seed + r
\* seed_everything(args.seed), in the run with index r
RunSeed(a, r) == a.seed

\* model.state_dict(): the live tensors; copy.deepcopy: a copy of them
state_dict(m) == [bound |-> TRUE, alias |-> TRUE, val |-> m]
\* (faulty variant: the state dict is kept without copying it)
NoCopy(sd, m) == sd
deepcopy(sd, m) == [bound |-> TRUE, alias |-> FALSE, val |-> IF sd.alias THEN m ELSE sd.val]
\* the tensors a state dict holds now
Deref(sd, m) == IF sd.alias THEN m ELSE sd.val

\* (faulty variant: >= in place of >)
ImprovesOrTies(score, best) == ~FracGt(best, score)
\* if val_score > best_val_score
Improves(score, best) == FracGt(score, best)

\* (faulty variant: > in place of >=)
PastWarmupStrict(ep, a) == ep > a.warmup
\* if epoch >= args.warmup
PastWarmup(ep, a) == ep >= a.warmup

\* (faulty variant: the memory usage is sampled in every epoch)
MemoryEpochEvery(ep) == TRUE
\* if epoch == 1
MemoryEpoch(ep) == ep = MemEpoch

\* what print_gpu_utilization can report
MemReadings == {1, 2}

\* float('inf'); a local that has no value yet; best_weights before the one
\* assignment it has, inside `if val_score > best_val_score`
Inf == <<1, 0>>
Unset == <<0, 0>>
Unbound == [bound |-> FALSE, alias |-> FALSE, val |-> [seed |-> 0, steps |-> 0]]
NoLogs == [train_loss |-> <<>>, val_score |-> <<>>, test_score |-> <<>>]

\* the command lines of the model; lr is in units of 1e-4
Configs ==
  [seed : {0}, epochs : 0..MaxEpochs, warmup : 0..MaxWarmup, lr : {3}, outdir : {""}]
    \cup [seed : {0}, epochs : {MaxEpochs}, warmup : {1}, lr : {3}, outdir : {"out"}]
RunConfigs ==
  [seed : {0, 1}, epochs : 0..RunsMaxEpochs, warmup : {1}, lr : {3}, outdir : {"", "out"}]

\* load_args(): the parsed command line and the defaults of the fields the
\* program fills in itself
load_args(av) ==
  [seed |-> av.seed, epochs |-> av.epochs, warmup |-> av.warmup, lr |-> av.lr,
   memory_usage |-> 0, save_logs |-> av.outdir # ""]

VARIABLES
  argv,            \* the command line
  nbatches,        \* len(train_loader)
  cat_empty,       \* what torch.cat answers on an empty list
  oracle,          \* the outputs model() has given: <<parameters, split>> -> rows
  clock,           \* time.time() / timer()
  \* the multi-run loop
  run_id, test_scores, test_losses, vals, total_time_list, avg_time_list,
  written,         \* the arguments results_to_file was called with
  saved,           \* what the last run wrote to its output directory
  \* main()
  pc, err, args, model, opt_lr, lr_steps, last_epoch, epoch,
  best_val_loss, best_val_score, best_model, best_epoch, best_weights,
  logs, per_epoch_time, t0, start,
  train_loss, val_score, val_loss, test_score, test_loss,
  total_time_taken, avg_time_epoch, ret,
  \* history
  seeded,          \* the seed given to seed_everything in this run
  trace,           \* the events of this run, in order
  lr_log,          \* the learning rates train_epoch wrote in this run
  trained,         \* the parameters at the end of each epoch's training
  mem_log,         \* the memory samples of this run: [epoch, mem]
  runs             \* one record per run that returned

envVars == <<argv, nbatches, cat_empty>>
aggVars == <<run_id, test_scores, test_losses, vals, total_time_list, avg_time_list, written, saved>>
bestVars == <<best_val_loss, best_val_score, best_model, best_epoch, best_weights>>
evalVars == <<val_score, val_loss, test_score, test_loss>>
timeVars == <<per_epoch_time, t0, start, total_time_taken, avg_time_epoch>>
optVars == <<opt_lr, lr_steps, last_epoch>>
histVars == <<seeded, lr_log, trained, mem_log, runs>>

vars == <<envVars, aggVars, bestVars, evalVars, timeVars, optVars, histVars,
          oracle, clock, pc, err, args, model, epoch, logs, train_loss, ret, trace>>

Event(name, ep) == [name |-> name, epoch |-> ep]

\* The state in which the script calls main() for the first time.
InitWith(configs) ==
  /\ argv \in configs
  /\ nbatches \in 1..MaxBatches
  /\ cat_empty \in {"raises", "returns"}
  /\ oracle = <<>>
  /\ clock = 0
  /\ run_id = 0
  /\ test_scores = <<>> /\ test_losses = <<>> /\ vals = <<>>
  /\ total_time_list = <<>> /\ avg_time_list = <<>>
  /\ written = <<>> /\ saved = <<>>
  /\ pc = "main" /\ err = ""
  /\ args = load_args(argv)
  /\ model = Unbound.val
  /\ opt_lr = [kind |-> "base", val |-> Unset] /\ lr_steps = Unset /\ last_epoch = 0
  /\ epoch = 0
  /\ best_val_loss = Unset /\ best_val_score = Unset /\ best_model = "unbound"
  /\ best_epoch = 0 /\ best_weights = Unbound
  /\ logs = NoLogs
  /\ per_epoch_time = <<>> /\ t0 = 0 /\ start = 0
  /\ train_loss = Unset
  /\ val_score = Unset /\ val_loss = Unset /\ test_score = Unset /\ test_loss = Unset
  /\ total_time_taken = 0 /\ avg_time_epoch = Unset
  /\ ret = <<>>
  /\ seeded = 0 /\ trace = <<>> /\ lr_log = <<>> /\ trained = <<>> /\ mem_log = <<>>
  /\ runs = <<>>

Init == InitWith(Configs)
InitRuns == InitWith(RunConfigs)

Raise(exception) ==
  /\ pc' = "raised"
  /\ err' = exception

\* main, up to "Training...": a fresh frame, load_args, seed_everything, the
\* datasets, the model, the optimizer, the two schedulers
Setup ==
  /\ pc = "main"
  /\ clock' = clock + 1
  /\ args' = load_args(argv)
  /\ seeded' = RunSeed(args', run_id)
  /\ model' = [seed |-> seeded', steps |-> 0]
  /\ opt_lr' = [kind |-> "base", val |-> <<args'.lr, 1>>]
  /\ last_epoch' = 0
  /\ epoch' = 0
  /\ best_val_loss' = Unset /\ best_val_score' = Unset /\ best_model' = "unbound"
  /\ best_epoch' = 0 /\ best_weights' = Unbound
  /\ logs' = NoLogs
  /\ per_epoch_time' = <<>> /\ t0' = 0 /\ start' = 0
  /\ total_time_taken' = 0 /\ avg_time_epoch' = Unset
  /\ train_loss' = Unset
  /\ val_score' = Unset /\ val_loss' = Unset /\ test_score' = Unset /\ test_loss' = Unset
  /\ ret' = <<>>
  /\ trace' = <<>> /\ lr_log' = <<>> /\ trained' = <<>> /\ mem_log' = <<>>
  /\ IF args'.warmup * nbatches = 0
       THEN /\ lr_steps' = Unset
            /\ Raise("ZeroDivisionError")
       ELSE /\ lr_steps' = Frac(args'.lr, args'.warmup * nbatches)
            /\ pc' = "training"
            /\ err' = ""
  /\ UNCHANGED <<envVars, aggVars, oracle, runs>>

\* best_val_loss = float('inf') ... start_time = timer()
BeginTraining ==
  /\ pc = "training"
  /\ clock' = clock + 1
  /\ best_val_loss' = Inf
  /\ best_val_score' = <<0, 1>>
  /\ best_model' = "None"
  /\ best_epoch' = 0
  /\ logs' = NoLogs
  /\ t0' = clock
  /\ per_epoch_time' = <<>>
  /\ epoch' = 0
  /\ pc' = "loop"
  /\ UNCHANGED <<envVars, aggVars, best_weights, evalVars, start, total_time_taken,
                 avg_time_epoch, optVars, histVars, oracle, err, args, model,
                 train_loss, ret, trace>>

\* for epoch in range(args.epochs): start = time.time()
LoopHead ==
  /\ pc = "loop"
  /\ clock' = clock + 1
  /\ IF epoch < args.epochs
       THEN start' = clock /\ pc' = "train"
       ELSE start' = start /\ pc' = "after"
  /\ UNCHANGED <<envVars, aggVars, bestVars, evalVars, per_epoch_time, t0,
                 total_time_taken, avg_time_epoch, optVars, histVars, oracle, err,
                 args, model, epoch, logs, train_loss, ret, trace>>

\* train_loss = train_epoch(model, train_loader, ...): every batch sets the
\* warmup learning rate if the epoch is in the warmup window and takes one
\* optimizer step
Train ==
  /\ pc = "train"
  /\ clock' = clock + 1
  /\ LET writes == LrWrites(epoch, args, nbatches, lr_steps)
     IN /\ lr_log' = lr_log \o writes
        /\ opt_lr' = IF writes = <<>> THEN opt_lr
                     ELSE [kind |-> "warmup", val |-> writes[Len(writes)].lr]
  /\ model' = [model EXCEPT !.steps = @ + nbatches]
  \* the epoch loss is a number the criterion gives for these parameters
  /\ train_loss' = <<model'.steps, 1>>
  /\ trained' = Append(trained, model')
  /\ trace' = Append(trace, Event("train", epoch))
  /\ pc' = "val"
  /\ UNCHANGED <<envVars, aggVars, bestVars, evalVars, timeVars, lr_steps, last_epoch,
                 seeded, mem_log, runs, oracle, err, args, epoch, logs, ret>>

\* the outputs of model() on a split: those it gave before for the same
\* parameters, any otherwise
Forward(split) ==
  IF <<model, split>> \in DOMAIN oracle
    THEN {oracle[<<model, split>>]}
    ELSE Outputs(Loader(split))

\* val_score, val_loss = eval_epoch(model, val_loader, ...)
EvalVal ==
  /\ pc = "val"
  /\ clock' = clock + 1
  /\ \E outs \in Forward("Val") :
       LET r == eval_epoch(outs, Loader("Val"), cat_empty)
       IN /\ oracle' = (<<model, "Val">> :> outs) @@ oracle
          /\ trace' = Append(trace, Event("val", epoch))
          /\ IF r.raised # ""
               THEN Raise(r.raised) /\ UNCHANGED <<val_score, val_loss>>
               ELSE /\ val_score' = r.score /\ val_loss' = r.loss
                    /\ pc' = "test" /\ err' = err
  /\ UNCHANGED <<envVars, aggVars, bestVars, test_score, test_loss, timeVars, optVars,
                 histVars, args, model, epoch, logs, train_loss, ret>>

\* test_score, test_loss = eval_epoch(model, test_loader, ...)
EvalTest ==
  /\ pc = "test"
  /\ clock' = clock + 1
  /\ \E outs \in Forward("Test") :
       LET r == eval_epoch(outs, Loader("Test"), cat_empty)
       IN /\ oracle' = (<<model, "Test">> :> outs) @@ oracle
          /\ trace' = Append(trace, Event("test", epoch))
          /\ IF r.raised # ""
               THEN Raise(r.raised) /\ UNCHANGED <<test_score, test_loss>>
               ELSE /\ test_score' = r.score /\ test_loss' = r.loss
                    /\ pc' = "memory" /\ err' = err
  /\ UNCHANGED <<envVars, aggVars, bestVars, val_score, val_loss, timeVars, optVars,
                 histVars, args, model, epoch, logs, train_loss, ret>>

\* if epoch == 1: args.memory_usage = print_gpu_utilization(args.device_id)
SampleMemory ==
  /\ pc = "memory"
  /\ clock' = clock + 1
  /\ IF MemoryEpoch(epoch)
       THEN \E mem \in MemReadings :
              /\ args' = [args EXCEPT !.memory_usage = mem]
              /\ mem_log' = Append(mem_log, [epoch |-> epoch, mem |-> mem])
              /\ trace' = Append(trace, Event("memory", epoch))
       ELSE UNCHANGED <<args, mem_log, trace>>
  /\ pc' = "scheduler"
  /\ UNCHANGED <<envVars, aggVars, bestVars, evalVars, timeVars, optVars, seeded,
                 lr_log, trained, runs, oracle, err, model, epoch, logs, train_loss, ret>>

\* if epoch >= args.warmup: lr_scheduler.step(), the cosine schedule over
\* T_max = epochs - warmup steps
SchedulerStep ==
  /\ pc = "scheduler"
  /\ clock' = clock + 1
  /\ IF PastWarmup(epoch, args)
       THEN /\ last_epoch' = last_epoch + 1
            /\ opt_lr' = [kind |-> "cosine",
                          val |-> Frac(last_epoch + 1, args.epochs - args.warmup)]
            /\ trace' = Append(trace, Event("scheduler", epoch))
       ELSE UNCHANGED <<last_epoch, opt_lr, trace>>
  /\ pc' = "log"
  /\ UNCHANGED <<envVars, aggVars, bestVars, evalVars, timeVars, lr_steps, histVars,
                 oracle, err, args, model, epoch, logs, train_loss, ret>>

\* logs['train_loss'].append(train_loss) ... logs['test_score'].append(test_score)
AppendLogs ==
  /\ pc = "log"
  /\ clock' = clock + 1
  /\ logs' = [train_loss |-> Append(logs.train_loss, train_loss),
              val_score |-> Append(logs.val_score, val_score),
              test_score |-> Append(logs.test_score, test_score)]
  /\ trace' = Append(trace, Event("log", epoch))
  /\ pc' = "best"
  /\ UNCHANGED <<envVars, aggVars, bestVars, evalVars, timeVars, optVars, histVars,
                 oracle, err, args, model, epoch, train_loss, ret>>

\* if val_score > best_val_score: the four assignments
BestUpdate ==
  /\ pc = "best"
  /\ clock' = clock + 1
  /\ IF Improves(val_score, best_val_score)
       THEN /\ best_val_score' = val_score
            /\ best_val_loss' = val_loss
            /\ best_epoch' = epoch
            /\ best_weights' = deepcopy(state_dict(model), model)
            /\ trace' = Append(trace, Event("best", epoch))
       ELSE UNCHANGED <<best_val_score, best_val_loss, best_epoch, best_weights, trace>>
  /\ pc' = "time"
  /\ UNCHANGED <<envVars, aggVars, best_model, evalVars, timeVars, optVars, histVars,
                 oracle, err, args, model, epoch, logs, train_loss, ret>>

\* per_epoch_time.append(time.time() - start), and on to the next epoch
RecordTime ==
  /\ pc = "time"
  /\ clock' = clock + 1
  /\ per_epoch_time' = Append(per_epoch_time, <<clock - start, 1>>)
  /\ trace' = Append(trace, Event("time", epoch))
  /\ epoch' = epoch + 1
  /\ pc' = "loop"
  /\ UNCHANGED <<envVars, aggVars, bestVars, evalVars, t0, start, total_time_taken,
                 avg_time_epoch, optVars, histVars, oracle, err, args, model, logs,
                 train_loss, ret>>

\* total_time_taken = time.time() - t0; avg_time_epoch = np.mean(per_epoch_time)
AfterLoop ==
  /\ pc = "after"
  /\ clock' = clock + 1
  /\ total_time_taken' = clock - t0
  /\ avg_time_epoch' = np_mean(per_epoch_time)
  /\ pc' = "load"
  /\ UNCHANGED <<envVars, aggVars, bestVars, evalVars, per_epoch_time, t0, start,
                 optVars, histVars, oracle, err, args, model, epoch, logs,
                 train_loss, ret, trace>>

\* model.load_state_dict(best_weights); best_weights is a local that only the
\* body of `if val_score > best_val_score` assigns
LoadBest ==
  /\ pc = "load"
  /\ clock' = clock + 1
  /\ IF ~best_weights.bound
       THEN /\ Raise("UnboundLocalError")
            /\ UNCHANGED <<model, trace>>
       ELSE /\ model' = Deref(best_weights, model)
            /\ trace' = Append(trace, Event("load", epoch))
            /\ pc' = "final"
            /\ err' = err
  /\ UNCHANGED <<envVars, aggVars, bestVars, evalVars, timeVars, optVars, histVars,
                 oracle, args, epoch, logs, train_loss, ret>>

\* "Testing...": test_score, test_loss = eval_epoch(model, test_loader, ...)
FinalTest ==
  /\ pc = "final"
  /\ clock' = clock + 1
  /\ \E outs \in Forward("Test") :
       LET r == eval_epoch(outs, Loader("Test"), cat_empty)
       IN /\ oracle' = (<<model, "Test">> :> outs) @@ oracle
          /\ trace' = Append(trace, Event("final_test", epoch))
          /\ IF r.raised # ""
               THEN Raise(r.raised) /\ UNCHANGED <<test_score, test_loss>>
               ELSE /\ test_score' = r.score /\ test_loss' = r.loss
                    /\ pc' = "save" /\ err' = err
  /\ UNCHANGED <<envVars, aggVars, bestVars, val_score, val_loss, timeVars, optVars,
                 histVars, args, model, epoch, logs, train_loss, ret>>

\* if args.save_logs: logs.csv, results.csv, model.pth; then the return
Return ==
  /\ pc = "save"
  /\ clock' = clock + 1
  /\ saved' = IF args.save_logs
                THEN <<[logs |-> logs,
                        results |-> [test_score |-> test_score, test_loss |-> test_loss,
                                     val_score |-> best_val_score, val_loss |-> best_val_loss,
                                     best_epoch |-> best_epoch,
                                     total_time |-> total_time_taken],
                        state_dict |-> Deref(best_weights, model)]>>
                ELSE saved
  /\ ret' = <<test_score, test_loss, best_val_loss, <<total_time_taken, 1>>, avg_time_epoch>>
  /\ trace' = Append(trace, Event("return", epoch))
  /\ pc' = "returned"
  /\ UNCHANGED <<envVars, run_id, test_scores, test_losses, vals, total_time_list,
                 avg_time_list, written, bestVars, evalVars, timeVars, optVars, histVars,
                 oracle, err, args, model, epoch, logs, train_loss>>

\* ------------------------------------------------------- the multi-run loop
\* test_score, test_loss, val, total_time, avg_time = main() and the five
\* appends; then the next run_id of range(10)
Collect ==
  /\ pc = "returned"
  /\ test_scores' = Append(test_scores, ret[1])
  /\ test_losses' = Append(test_losses, ret[2])
  /\ vals' = Append(vals, ret[3])
  /\ total_time_list' = Append(total_time_list, ret[4])
  /\ avg_time_list' = Append(avg_time_list, ret[5])
  /\ runs' = Append(runs, [seed |-> seeded, trace |-> trace, logs |-> logs])
  /\ run_id' = run_id + 1
  /\ pc' = IF run_id + 1 < NumRuns THEN "main" ELSE "write"
  /\ UNCHANGED <<envVars, written, saved, bestVars, evalVars, timeVars, optVars,
                 seeded, lr_log, trained, mem_log, oracle, clock, err, args, model,
                 epoch, logs, train_loss, ret, trace>>

\* the statistics handed to results_to_file, in the order of the call
Summary ==
  <<[of |-> "test_scores", mean |-> np_mean(test_scores), std |-> np_std(test_scores)],
    [of |-> "test_losses", mean |-> np_mean(test_losses), std |-> np_std(test_losses)],
    [of |-> "total_time_list", mean |-> np_mean(total_time_list), std |-> np_std(total_time_list)],
    [of |-> "avg_time_list", mean |-> np_mean(avg_time_list), std |-> np_std(avg_time_list)]>>

\* args = load_args(); results_to_file(args, ...)
WriteResults ==
  /\ pc = "write"
  /\ args' = load_args(argv)
  /\ written' = <<[args |-> args', stats |-> Summary]>>
  /\ pc' = "done"
  /\ UNCHANGED <<envVars, run_id, test_scores, test_losses, vals, total_time_list,
                 avg_time_list, saved, bestVars, evalVars, timeVars, optVars, histVars,
                 oracle, clock, err, model, epoch, logs, train_loss, ret, trace>>

\* ---------------------------------------------------------- specifications
\* one call of main()
Next ==
  \/ Setup \/ BeginTraining \/ LoopHead \/ Train \/ EvalVal \/ EvalTest
  \/ SampleMemory \/ SchedulerStep \/ AppendLogs \/ BestUpdate \/ RecordTime
  \/ AfterLoop \/ LoadBest \/ FinalTest \/ Return

Spec == Init /\ [][Next]_vars

\* the script: main() under the multi-run loop
NextRuns == Next \/ Collect \/ WriteResults

SpecRuns == InitRuns /\ [][NextRuns]_vars

\* ------------------------------------------------------------- properties
EpochPcs == {"train", "val", "test", "memory", "scheduler", "log", "best", "time"}
AfterLoopPcs == {"after", "load", "final", "save", "returned"}

BestRecord == <<best_val_score, best_val_loss, best_epoch, best_weights>>

\* C1: within an epoch the best-checkpoint record (score, loss, epoch,
\* weights) changes if and only if the step is the comparison of this epoch's
\* validation score with best_val_score and the score is strictly greater;
\* it then takes this epoch's score, loss, index and parameters.  The first
\* epoch starts from best_val_score = 0.
C1_BestUpdatedIffStrictlyGreater ==
  [][ /\ (pc = "loop" /\ epoch = 0) => best_val_score = <<0, 1>>
      /\ pc \in EpochPcs =>
           /\ (BestRecord' # BestRecord) <=> (pc = "best" /\ FracGt(val_score, best_val_score))
           /\ (pc = "best" /\ FracGt(val_score, best_val_score)) =>
                /\ best_val_score' = val_score
                /\ best_val_loss' = val_loss
                /\ best_epoch' = epoch
                /\ best_weights'.bound
                /\ Deref(best_weights', model') = model ]_vars

\* an improvement in epoch 0, a second one in epoch 1 and a tie in epoch 2
\* that left the record alone
C1_Witness ==
  /\ pc = "time" /\ epoch = 2
  /\ Len(logs.val_score) = 3
  /\ FracGt(logs.val_score[1], <<0, 1>>)
  /\ FracGt(logs.val_score[2], logs.val_score[1])
  /\ logs.val_score[3] = logs.val_score[2]
  /\ best_epoch = 1

\* C2: train_epoch writes a learning rate at every batch of every epoch
\* below warmup and at no other; the k-th write of the run is that of global
\* iteration i = epoch * B + batch = k - 1 and its value is
\* i * base_lr / (warmup * B); the values increase strictly; the one of the
\* last warmup iteration is one ramp step below base_lr; and once the cosine
\* schedule has stepped, a later train_epoch leaves its rate in place.
C2_WarmupRamp ==
  /\ \A k \in 1..Len(lr_log) :
       LET w == lr_log[k]
           i == w.epoch * nbatches + w.i
       IN /\ w.epoch < args.warmup
          /\ w.i \in 0..(nbatches - 1)
          /\ i = k - 1
          /\ w.lr = Frac(i * args.lr, args.warmup * nbatches)
          /\ k > 1 => FracGt(w.lr, lr_log[k - 1].lr)
          /\ i = args.warmup * nbatches - 1 =>
               FracSub(<<args.lr, 1>>, w.lr) = Frac(args.lr, args.warmup * nbatches)
  /\ pc \notin {"main", "training", "raised"} =>
       Len(lr_log) = nbatches * (IF Len(trained) < args.warmup THEN Len(trained) ELSE args.warmup)
  /\ opt_lr.kind = "warmup" => lr_log # <<>> /\ opt_lr.val = lr_log[Len(lr_log)].lr
  /\ (pc \in EpochPcs \ {"train"} /\ last_epoch > 0) => opt_lr.kind = "cosine"

\* the whole warmup window of two epochs of two batches has been written and
\* the first epoch past the window has been trained
C2_Witness ==
  /\ pc = "val" /\ epoch = 2
  /\ args.warmup = 2 /\ nbatches = 2
  /\ Len(lr_log) = 4 /\ Len(trained) = 3
  /\ lr_log[4] = [epoch |-> 1, i |-> 1, lr |-> <<9, 4>>]

\* C3: main() with epochs = 0 (and a warmup that is not 0) never runs the
\* loop body, logs nothing, keeps the sentinels of the best-checkpoint record
\* and returns without an error.
C3_ZeroEpochsReturns ==
  (args.epochs = 0 /\ args.warmup > 0 /\ pc \notin {"main", "training"}) =>
    /\ trace = <<>> \/ trace = <<Event("return", 0)>>
    /\ logs = NoLogs
    /\ best_val_score = <<0, 1>> /\ best_val_loss = Inf /\ best_epoch = 0
    /\ pc # "raised"

\* C4: a run of at least one epoch, all of whose epochs were evaluated, goes
\* on to the terminal state: it does not raise, and once it has returned a
\* snapshot exists, the model holds it, exactly one final test evaluation
\* was run and its score is the one returned.
C4_RunReachesTerminalState ==
  (args.epochs >= 1 /\ Len(logs.val_score) = args.epochs /\ pc \notin EpochPcs) =>
    /\ pc # "raised"
    /\ pc = "returned" =>
         /\ best_weights.bound
         /\ model = Deref(best_weights, model)
         /\ Len(SelectSeq(trace, LAMBDA e : e.name = "final_test")) = 1
         /\ ret[1] = test_score

\* C5: whenever eval_epoch was the last thing the run did, it returned, with
\* score = correct / number of samples, and the parameters are those the
\* model had before the call.
C5_EvalEpochReturns ==
  (trace # <<>> /\ trace[Len(trace)].name \in {"val", "test", "final_test"}) =>
    LET split == IF trace[Len(trace)].name = "val" THEN "Val" ELSE "Test"
        outs == oracle[<<model, split>>]
        score == Frac(CountCorrect(outs, Loader(split), 1), NSamples(Loader(split)))
    IN /\ pc # "raised"
       /\ split = "Val" => val_score = score
       /\ split = "Test" => test_score = score
       /\ trace[Len(trace)].name # "final_test" => model = trained[Len(trained)]

\* C6: once results_to_file has been called, main() has returned 10 times,
\* each of the five lists holds 10 values, and the call was given the mean
\* and the standard deviation of each of the five.
C6_FiveMetricsSummarised ==
  pc = "done" =>
    /\ run_id = NumRuns
    /\ \A xs \in {test_scores, test_losses, vals, total_time_list, avg_time_list} :
         Len(xs) = NumRuns
    /\ \A xs \in {test_scores, test_losses, vals, total_time_list, avg_time_list} :
         \E k \in 1..Len(written[1].stats) :
           /\ written[1].stats[k].mean = np_mean(xs)
           /\ written[1].stats[k].std = np_std(xs)
    /\ { written[1].stats[k].of : k \in 1..Len(written[1].stats) } =
         {"test_scores", "test_losses", "vals", "total_time_list", "avg_time_list"}

IsPrefix(xs, ys) == Len(xs) <= Len(ys) /\ xs = SubSeq(ys, 1, Len(xs))

\* C7: every run is seeded with the seed of the command line, whatever its
\* run_id; every run that returned went through the events of the first one,
\* logged what it logged and returned its test score, test loss and best
\* validation loss; the run under way has so far repeated the first one.
C7_RunsShareSeedAndResults ==
  /\ pc \notin {"main", "write", "done"} => seeded = argv.seed
  /\ \A r \in 1..Len(runs) :
       /\ runs[r].seed = argv.seed
       /\ runs[r].trace = runs[1].trace
       /\ runs[r].logs = runs[1].logs
       /\ test_scores[r] = test_scores[1]
       /\ test_losses[r] = test_losses[1]
       /\ vals[r] = vals[1]
  /\ (runs # <<>> /\ pc \notin {"main", "write", "done"}) => IsPrefix(trace, runs[1].trace)

\* all ten runs have returned
C7_Witness ==
  /\ pc = "write" /\ run_id = NumRuns /\ Len(runs) = NumRuns
  /\ args.epochs >= 1

EpochEventNames == {"train", "val", "test", "scheduler", "log", "best", "time"}
EpochEvents == SelectSeq(trace, LAMBDA e : e.name \in EpochEventNames)
Happened(name, ep) == \E k \in 1..Len(trace) : trace[k] = Event(name, ep)

\* the event b comes right after the event a
Follows(a, b) ==
  IF a.name = "time"
    THEN b = Event("train", a.epoch + 1)
    ELSE /\ b.epoch = a.epoch
         /\ CASE a.name = "train" -> b.name = "val"
              [] a.name = "val" -> b.name = "test"
              [] a.name = "test" ->
                   b.name = (IF a.epoch >= args.warmup THEN "scheduler" ELSE "log")
              [] a.name = "scheduler" -> b.name = "log"
              [] a.name = "log" -> b.name \in {"best", "time"}
              [] a.name = "best" -> b.name = "time"

\* C8: the events of the epochs come in the order train, validation, test,
\* scheduler, log, best, time, none of them twice in an epoch and none but
\* the best-checkpoint update and the scheduler step left out; the scheduler
\* step is there if and only if epoch >= warmup; the train of the next epoch
\* follows the time of this one.
C8_EpochEventOrder ==
  LET evs == EpochEvents
  IN /\ evs # <<>> => evs[1] = Event("train", 0)
     /\ \A k \in 1..(Len(evs) - 1) : Follows(evs[k], evs[k + 1])

\* two whole epochs, the first in the warmup window and without a scheduler
\* step, the second past it and with one, and a best-checkpoint update
C8_Witness ==
  /\ pc = "loop" /\ epoch = 2 /\ args.warmup = 1
  /\ ~Happened("scheduler", 0) /\ Happened("scheduler", 1)
  /\ Happened("best", 1)

\* C9: while a snapshot exists, best_epoch is an epoch that was trained and
\* logged, best_val_score is the validation score logged for it, and the
\* snapshot holds the parameters the model had at the end of that epoch's
\* training.
C9_SnapshotIndependent ==
  best_weights.bound =>
    /\ best_epoch < Len(trained)
    /\ best_epoch < Len(logs.val_score)
    /\ best_val_score = logs.val_score[best_epoch + 1]
    /\ Deref(best_weights, model) = trained[best_epoch + 1]

\* the snapshot of epoch 0 is still the record after two more train_epoch
\* calls have changed the live model
C9_Witness ==
  /\ best_weights.bound /\ best_epoch = 0
  /\ pc = "val" /\ epoch = 2
  /\ model # trained[1]
  /\ Deref(best_weights, model) = trained[1]

LoopCompleted == pc \in AfterLoopPcs

\* C10, as claimed: a run that has completed its epochs has sampled the
\* memory usage exactly once, in epoch 1, and memory_usage holds the sample.
C10_SampledExactlyOnce ==
  LoopCompleted =>
    /\ Len(mem_log) = 1
    /\ mem_log[1].epoch = MemEpoch
    /\ args.memory_usage = mem_log[1].mem

\* C10, amended: the memory usage is sampled at most once in a run, in epoch
\* 1 and after that epoch's test evaluation; a run that has completed its
\* epochs has sampled once if it has at least two epochs and not at all
\* otherwise; memory_usage holds the sample from then on, and its default 0
\* until then.
C10_SampledOnceIfTwoEpochs ==
  /\ Len(mem_log) <= 1
  /\ \A k \in 1..Len(mem_log) :
       /\ mem_log[k].epoch = MemEpoch
       /\ Happened("test", MemEpoch)
       /\ mem_log[k].mem \in MemReadings
       /\ args.memory_usage = mem_log[k].mem
  /\ mem_log = <<>> => args.memory_usage = 0
  /\ LoopCompleted => Len(mem_log) = (IF args.epochs >= 2 THEN 1 ELSE 0)

\* a run of three epochs has returned with its one sample
C10_Witness ==
  /\ pc = "returned" /\ args.epochs = 3
  /\ Len(mem_log) = 1 /\ mem_log[1].epoch = 1
  /\ args.memory_usage = mem_log[1].mem

====
